---- MODULE Spec2Model ----
(***************************************************************************)
(* ps-tree: childrenOfPid(pid, callback) of src/index.js.                  *)
(*                                                                         *)
(* A JavaScript string is a sequence of one-character strings, so that     *)
(* trim, includes, split, the POSIX data pattern and parseCsvLine are      *)
(* computed character by character as the code computes them.  A row (a    *)
(* JavaScript object) is a function from its keys to their values.         *)
(***************************************************************************)
EXTENDS Integers, Sequences, FiniteSets, TLC

VARIABLES
    pc,            \* position of the query: idle, thrown, running, scanning, returned
    callbackIsFn,  \* typeof callback === 'function'
    isWindows,     \* process.platform === 'win32'
    pid,           \* the root PID after line 13-15 (a string)
    headers,       \* the closure variable headers (null until the header line)
    processLister, \* the spawned command: none, running, failing, failed, exit0, exit1
    stdout,        \* processLister.stdout: none, open, ended, errored, closed
    lines,         \* the lines es.split() has handed to the es.map handler so far
    ps,            \* the rows es.writeArray has collected
    parents,       \* keys of the parents object that are true
    children,      \* the children array
    idx,           \* position of ps.forEach
    calls,         \* the invocations of callback, in order
    uncaught,      \* an exception was thrown outside childrenOfPid and its callback
    csvLine,       \* input of parseCsvLine under SpecCsv
    csvFields,     \* its result
    suspended,     \* the closure of a second query whose events are not being handled
    headerStr,     \* input of normalizeHeader under SpecHeader
    normalized     \* its results, applied once and then again to its own result

vars == <<pc, callbackIsFn, isWindows, pid, headers, processLister, stdout, lines,
          ps, parents, children, idx, calls, uncaught, csvLine, csvFields,
          suspended, headerStr, normalized>>

---------------------------------------------------------------------------
(* Bounds of the model.                                                    *)
MaxPid == 2
MaxRows == 3
MaxLines == 3
MaxCsvLen == 5
MaxHeaderLen == 3
MaxPosixLen == 9
MaxLinesTwo == 2

---------------------------------------------------------------------------
(* JavaScript values.                                                      *)

\* no second query
NoQuery == [pc |-> "none"]

\* null, for the variable headers (no header list equals it)
Null == << <<"<null>">> >>
\* undefined, the value of a property a row does not have
Undefined == <<"<undefined>">>
\* the property key undefined is converted to: the string 'undefined'
UndefinedKey == <<"u", "n", "d", "e", "f", "i", "n", "e", "d">>

Range(s) == {s[i] : i \in 1..Len(s)}

DigitChars == {"0", "1", "2", "3", "4", "5", "6", "7", "8", "9"}
DigitOf(d) == CASE d = 0 -> "0" [] d = 1 -> "1" [] d = 2 -> "2" [] d = 3 -> "3"
                [] d = 4 -> "4" [] d = 5 -> "5" [] d = 6 -> "6" [] d = 7 -> "7"
                [] d = 8 -> "8" [] d = 9 -> "9"

\* Number.prototype.toString for a non-negative integer (line 14)
RECURSIVE NumberToString(_)
NumberToString(n) ==
    IF n < 10 THEN <<DigitOf(n)>>
    ELSE NumberToString(n \div 10) \o <<DigitOf(n % 10)>>

IsSpace(c) == c \in {" ", "\t"}
IsDigit(c) == c \in DigitChars

\* String.prototype.trim (line 66)
RECURSIVE TrimLeft(_)
TrimLeft(s) == IF s # <<>> /\ IsSpace(Head(s)) THEN TrimLeft(Tail(s)) ELSE s
RECURSIVE TrimRight(_)
TrimRight(s) ==
    IF s # <<>> /\ IsSpace(s[Len(s)]) THEN TrimRight(SubSeq(s, 1, Len(s) - 1)) ELSE s
Trim(s) == TrimRight(TrimLeft(s))

\* trimmedLine.includes('----') (line 69)
IncludesDashes(s) ==
    \E i \in 1..(Len(s) - 3) : \A j \in 0..3 : s[i + j] = "-"

NotSpace(c) == ~IsSpace(c)

\* length of the longest run of whitespace (\s+), of digits (\d+) and of
\* non-whitespace (\S+) of s from position i on, as the greedy pattern takes it
SpaceRun(s, i) ==
    CHOOSE n \in 0..(Len(s) + 1 - i) :
        /\ \A k \in i..(i + n - 1) : IsSpace(s[k])
        /\ (i + n > Len(s) \/ ~IsSpace(s[i + n]))
DigitRun(s, i) ==
    CHOOSE n \in 0..(Len(s) + 1 - i) :
        /\ \A k \in i..(i + n - 1) : IsDigit(s[k])
        /\ (i + n > Len(s) \/ ~IsDigit(s[i + n]))
NonSpaceRun(s, i) ==
    CHOOSE n \in 0..(Len(s) + 1 - i) :
        /\ \A k \in i..(i + n - 1) : NotSpace(s[k])
        /\ (i + n > Len(s) \/ IsSpace(s[i + n]))

\* trimmedLine.split(/\s+/) (line 75)
RECURSIVE SplitWs(_)
SplitWs(s) ==
    LET n == NonSpaceRun(s, 1)
        w == SpaceRun(s, n + 1)
    IN  IF w = 0 THEN <<s>>
        ELSE <<SubSeq(s, 1, n)>> \o SplitWs(SubSeq(s, n + w + 1, Len(s)))

\* trimmedLine.match(/^\s*(\d+)\s+(\d+)\s+(\S+)\s+(.+)$/), then match.slice(1),
\* or [] when there is no match (lines 85-86)
MatchPosix(s) ==
    LET a0 == 1 + SpaceRun(s, 1)
        d1 == DigitRun(s, a0)
        w1 == SpaceRun(s, a0 + d1)
        a1 == a0 + d1 + w1
        d2 == DigitRun(s, a1)
        w2 == SpaceRun(s, a1 + d2)
        a2 == a1 + d2 + w2
        t3 == NonSpaceRun(s, a2)
        w3 == SpaceRun(s, a2 + t3)
        a3 == a2 + t3 + w3
    IN  IF d1 = 0 \/ w1 = 0 \/ d2 = 0 \/ w2 = 0 \/ t3 = 0 \/ w3 = 0 THEN <<>>
        ELSE IF a3 <= Len(s)
             THEN <<SubSeq(s, a0, a0 + d1 - 1), SubSeq(s, a1, a1 + d2 - 1),
                    SubSeq(s, a2, a2 + t3 - 1), SubSeq(s, a3, Len(s))>>
        \* the whitespace run reaches the end: \s+ gives its last character to (.+)
        ELSE IF w3 >= 2
             THEN <<SubSeq(s, a0, a0 + d1 - 1), SubSeq(s, a1, a1 + d2 - 1),
                    SubSeq(s, a2, a2 + t3 - 1), SubSeq(s, Len(s), Len(s))>>
        ELSE <<>>

\* the loop of parseCsvLine over the characters of line from position i on,
\* with the locals fields, current and inQuote (lines 126-137)
RECURSIVE parseCsvLoop(_, _, _, _, _)
parseCsvLoop(line, i, fields, current, inQuote) ==
    IF i > Len(line) THEN Append(fields, current)
    ELSE IF line[i] = "\"" THEN parseCsvLoop(line, i + 1, fields, current, ~inQuote)
    ELSE IF line[i] = "," /\ ~inQuote
         THEN parseCsvLoop(line, i + 1, Append(fields, current), <<>>, inQuote)
    ELSE parseCsvLoop(line, i + 1, fields, Append(current, line[i]), inQuote)

\* parseCsvLine splitting at every comma, quoted or not
RECURSIVE parseCsvLoopIgnoresQuotes(_, _, _, _)
parseCsvLoopIgnoresQuotes(line, i, fields, current) ==
    IF i > Len(line) THEN Append(fields, current)
    ELSE IF line[i] = "\"" THEN parseCsvLoopIgnoresQuotes(line, i + 1, fields, current)
    ELSE IF line[i] = ","
         THEN parseCsvLoopIgnoresQuotes(line, i + 1, Append(fields, current), <<>>)
    ELSE parseCsvLoopIgnoresQuotes(line, i + 1, fields, Append(current, line[i]))
parseCsvLineIgnoresQuotes(line) == parseCsvLoopIgnoresQuotes(line, 1, <<>>, <<>>)

parseCsvLine(line) == parseCsvLoop(line, 1, <<>>, <<>>, FALSE)

S_Name == <<"N", "a", "m", "e">>
S_COMM == <<"C", "O", "M", "M">>
S_COMMAND == <<"C", "O", "M", "M", "A", "N", "D">>
S_ParentProcessId ==
    <<"P", "a", "r", "e", "n", "t", "P", "r", "o", "c", "e", "s", "s", "I", "d">>
S_ProcessId == <<"P", "r", "o", "c", "e", "s", "s", "I", "d">>
S_Status == <<"S", "t", "a", "t", "u", "s">>
S_PPID == <<"P", "P", "I", "D">>
S_PID == <<"P", "I", "D">>
S_STAT == <<"S", "T", "A", "T">>

\* normalizeHeader without the case 'COMM' (the Darwin title)
normalizeHeaderNoComm(str) ==
    CASE str = S_Name -> S_COMMAND
      [] str = S_ParentProcessId -> S_PPID
      [] str = S_ProcessId -> S_PID
      [] str = S_Status -> S_STAT
      [] OTHER -> str

normalizeHeader(str) ==
    CASE str = S_Name -> S_COMMAND
      [] str = S_COMM -> S_COMMAND
      [] str = S_ParentProcessId -> S_PPID
      [] str = S_ProcessId -> S_PID
      [] str = S_Status -> S_STAT
      [] OTHER -> str

---------------------------------------------------------------------------
(* The es.map line handler (lines 65-99).                                  *)

\* the row object built by headers.forEach (lines 93-96): a later column of the
\* same header name overwrites an earlier one; an empty column stays ''
MakeRow(h, columns) ==
    [k \in Range(h) |->
        columns[CHOOSE i \in 1..Len(h) :
                    h[i] = k /\ \A j \in (i + 1)..Len(h) : h[j] # k]]

\* rawHeaders.map(normalizeHeader) (line 76)
normalizeHeaders(rawHeaders) ==
    [i \in 1..Len(rawHeaders) |-> normalizeHeader(rawHeaders[i])]

\* columns of a data line (lines 81-87)
Columns(trimmedLine, win) ==
    IF win THEN parseCsvLine(trimmedLine) ELSE MatchPosix(trimmedLine)

\* esMapHandler passing an error to cb for a line with too few columns
esMapHandlerFailsOnShort(h, line, win) ==
    LET trimmedLine == Trim(line)
    IN  IF Len(trimmedLine) = 0 \/ IncludesDashes(trimmedLine)
        THEN [headers |-> h, out |-> <<>>, err |-> FALSE]
        ELSE IF h = Null
        THEN LET rawHeaders == IF win THEN parseCsvLine(trimmedLine)
                                      ELSE SplitWs(trimmedLine)
             IN  [headers |-> normalizeHeaders(rawHeaders),
                  out |-> <<>>, err |-> FALSE]
        ELSE LET columns == Columns(trimmedLine, win)
             IN  IF Len(columns) < Len(h)
                 THEN [headers |-> h, out |-> <<>>, err |-> TRUE]
                 ELSE [headers |-> h, out |-> <<MakeRow(h, columns)>>, err |-> FALSE]

\* esMapHandler taking a later line with too few columns as a new header line
esMapHandlerRereadsHeader(h, line, win) ==
    LET trimmedLine == Trim(line)
        rawHeaders == IF win THEN parseCsvLine(trimmedLine) ELSE SplitWs(trimmedLine)
    IN  IF Len(trimmedLine) = 0 \/ IncludesDashes(trimmedLine)
        THEN [headers |-> h, out |-> <<>>, err |-> FALSE]
        ELSE IF h = Null
        THEN [headers |-> normalizeHeaders(rawHeaders), out |-> <<>>, err |-> FALSE]
        ELSE LET columns == Columns(trimmedLine, win)
             IN  IF Len(columns) < Len(h)
                 THEN [headers |-> normalizeHeaders(rawHeaders), out |-> <<>>,
                       err |-> FALSE]
                 ELSE [headers |-> h, out |-> <<MakeRow(h, columns)>>, err |-> FALSE]

\* esMapHandler with the separator test of line 69 made only while headers is null
esMapHandlerSeparatorBeforeHeader(h, line, win) ==
    LET trimmedLine == Trim(line)
    IN  IF Len(trimmedLine) = 0 \/ (h = Null /\ IncludesDashes(trimmedLine))
        THEN [headers |-> h, out |-> <<>>, err |-> FALSE]
        ELSE IF h = Null
        THEN LET rawHeaders == IF win THEN parseCsvLine(trimmedLine)
                                      ELSE SplitWs(trimmedLine)
             IN  [headers |-> normalizeHeaders(rawHeaders),
                  out |-> <<>>, err |-> FALSE]
        ELSE LET columns == Columns(trimmedLine, win)
             IN  IF Len(columns) < Len(h)
                 THEN [headers |-> h, out |-> <<>>, err |-> FALSE]
                 ELSE [headers |-> h, out |-> <<MakeRow(h, columns)>>, err |-> FALSE]

\* one call of the handler with the closure variable headers = h: the new value
\* of headers, the rows passed to cb (none or one) and whether cb got an error
esMapHandler(h, line, win) ==
    LET trimmedLine == Trim(line)
    IN  IF Len(trimmedLine) = 0 \/ IncludesDashes(trimmedLine)
        THEN [headers |-> h, out |-> <<>>, err |-> FALSE]
        ELSE IF h = Null
        THEN LET rawHeaders == IF win THEN parseCsvLine(trimmedLine)
                                      ELSE SplitWs(trimmedLine)
             IN  [headers |-> normalizeHeaders(rawHeaders),
                  out |-> <<>>, err |-> FALSE]
        ELSE LET columns == Columns(trimmedLine, win)
             IN  IF Len(columns) < Len(h)
                 THEN [headers |-> h, out |-> <<>>, err |-> FALSE]
                 ELSE [headers |-> h, out |-> <<MakeRow(h, columns)>>, err |-> FALSE]

---------------------------------------------------------------------------
(* The es.writeArray callback (lines 100-113).                             *)

\* proc.PPID, proc.PID: undefined when the row has no such key
Get(proc, key) == IF key \in DOMAIN proc THEN proc[key] ELSE Undefined

\* the property key a value is converted to in parents[...]
PropKey(v) == IF v = Undefined THEN UndefinedKey ELSE v

\* forEachBody without line 107: the PID of a matching row is not remembered
forEachBodyNoGrow(par, chi, proc) ==
    IF PropKey(Get(proc, S_PPID)) \in par
    THEN [parents |-> par, children |-> Append(chi, proc)]
    ELSE [parents |-> par, children |-> chi]

\* forEachBody testing parents[proc.PID] instead of parents[proc.PPID]
forEachBodyTestsPid(par, chi, proc) ==
    IF PropKey(Get(proc, S_PID)) \in par
    THEN [parents |-> par \cup {PropKey(Get(proc, S_PID))},
          children |-> Append(chi, proc)]
    ELSE [parents |-> par, children |-> chi]

\* forEachBody with children.unshift(proc) instead of children.push(proc)
forEachBodyUnshift(par, chi, proc) ==
    IF PropKey(Get(proc, S_PPID)) \in par
    THEN [parents |-> par \cup {PropKey(Get(proc, S_PID))},
          children |-> <<proc>> \o chi]
    ELSE [parents |-> par, children |-> chi]

\* forEachBody with parents = { [proc.PID]: true } instead of line 107
forEachBodyReplaces(par, chi, proc) ==
    IF PropKey(Get(proc, S_PPID)) \in par
    THEN [parents |-> {PropKey(Get(proc, S_PID))},
          children |-> Append(chi, proc)]
    ELSE [parents |-> par, children |-> chi]

\* the body of ps.forEach (lines 106-109) on the locals parents, children
forEachBody(par, chi, proc) ==
    IF PropKey(Get(proc, S_PPID)) \in par
    THEN [parents |-> par \cup {PropKey(Get(proc, S_PID))},
          children |-> Append(chi, proc)]
    ELSE [parents |-> par, children |-> chi]

\* the invocations of callback: callback(null, children) and callback(err)
Success(result) == [err |-> "null", results |-> result]
Failure == [err |-> "Error"]

---------------------------------------------------------------------------
(* Inputs.                                                                 *)

Sp == <<" ">>
Quote == <<"\"">>
Comma == <<",">>
Quoted(str) == Quote \o str \o Quote

\* a pid argument: a number or a string (line 13)
Num(n) == [type |-> "number", val |-> n]
Str(str) == [type |-> "string", val |-> str]
PidArgs == {Num(1), Str(<<"1">>), Str(<<"2">>)}

\* ps -A -o ppid,pid,stat,comm (line 59): the header as Darwin prints it
PosixHeaderLine == Sp \o S_PPID \o Sp \o Sp \o S_PID \o Sp \o S_STAT \o Sp \o S_COMM
PosixLine(ppid, p, stat, comm) == Sp \o ppid \o Sp \o Sp \o p \o Sp \o stat \o Sp \o comm
\* ConvertTo-Csv -NoTypeInformation (line 56)
CsvHeaderLine ==
    Quoted(S_ParentProcessId) \o Comma \o Quoted(S_ProcessId) \o Comma
        \o Quoted(S_Status) \o Comma \o Quoted(S_Name)
CsvLine(ppid, p, stat, name) ==
    Quoted(ppid) \o Comma \o Quoted(p) \o Comma \o Quoted(stat) \o Comma \o Quoted(name)

EmptyLine == <<>>
BlankLine == <<" ", "\t">>
DashLine == <<"-", "-", "-", "-", "-">>
PosixShortLine == <<"1", " ", "2">>
PosixNoDigitLine == <<"x", " ", "2", " ", "S", " ", "a">>
PosixDashCommandLine == PosixLine(<<"1">>, <<"2">>, <<"S">>, <<"a", "-", "-", "-", "-", "b">>)
PosixLineA == PosixLine(<<"1">>, <<"2">>, <<"S">>, <<"a", " ", "b">>)
PosixLineB == PosixLine(<<"2">>, <<"3">>, <<"R", "+">>, <<"c">>)
CsvLineA == CsvLine(<<"1">>, <<"2">>, <<>>, <<"a", ",", " ", "b">>)
CsvLineB == CsvLine(<<"2">>, <<"3">>, <<>>, <<"c">>)
CsvShortLine == Quoted(<<"1">>) \o Comma \o Quoted(<<"2">>)

\* the lines the listing command of the platform may print
CsvLines ==
    {CsvHeaderLine, CsvLineA, CsvLineB, CsvShortLine, EmptyLine, DashLine, PosixLineA}
PosixLines ==
    {PosixHeaderLine, PosixLineA, PosixLineB, PosixShortLine, PosixNoDigitLine,
     PosixDashCommandLine, EmptyLine, BlankLine, DashLine, CsvLineB}
Lines(win) == IF win THEN CsvLines ELSE PosixLines

\* rows of a process table over the PIDs 0..MaxPid
PidStrings == {NumberToString(n) : n \in 0..MaxPid}
Row(ppid, p, stat, comm) ==
    (S_PPID :> ppid) @@ (S_PID :> p) @@ (S_STAT :> stat) @@ (S_COMMAND :> comm)
TableRows == {Row(ppid, p, <<"S">>, <<"c">>) : ppid \in PidStrings, p \in PidStrings}
RECURSIVE SeqsUpTo(_, _)
SeqsUpTo(S, n) ==
    IF n = 0 THEN {<<>>}
    ELSE LET shorter == SeqsUpTo(S, n - 1)
         IN  shorter \cup {Append(q, x) : q \in {r \in shorter : Len(r) = n - 1}, x \in S}

S_100 == <<"1", "0", "0">>
S_200 == <<"2", "0", "0">>
S_300 == <<"3", "0", "0">>
S_999 == <<"9", "9", "9">>
\* the end-to-end scenario: rows (1,100,S,sh), (100,200,R,node), (999,300,S,other)
EndToEndRows ==
    <<Row(<<"1">>, S_100, <<"S">>, <<"s", "h">>),
      Row(S_100, S_200, <<"R">>, <<"n", "o", "d", "e">>),
      Row(S_999, S_300, <<"S">>, <<"o", "t", "h", "e", "r">>)>>
\* the ordering scenario: rows (100,200,child), (200,300,grandchild), and reversed
ChildRow == Row(S_100, S_200, <<"S">>, <<"c", "h", "i", "l", "d">>)
GrandchildRow ==
    Row(S_200, S_300, <<"S">>, <<"g", "r", "a", "n", "d", "c", "h", "i", "l", "d">>)
ChildFirstRows == <<ChildRow, GrandchildRow>>
GrandchildFirstRows == <<GrandchildRow, ChildRow>>
ScenarioRows == {EndToEndRows, ChildFirstRows, GrandchildFirstRows}

---------------------------------------------------------------------------
(* The query.                                                              *)

Init ==
    /\ pc = "idle"
    /\ callbackIsFn = FALSE
    /\ isWindows \in BOOLEAN
    /\ pid = Undefined
    /\ headers = Null
    /\ processLister = "none"
    /\ stdout = "none"
    /\ lines = <<>>
    /\ ps = <<>>
    /\ parents = {}
    /\ children = <<>>
    /\ idx = 0
    /\ calls = <<>>
    /\ uncaught = FALSE
    /\ csvLine = <<>>
    /\ csvFields = <<>>
    /\ suspended = NoQuery
    /\ headerStr = <<>>
    /\ normalized = <<>>

\* childrenOfPid checking the callback only after the spawn
childrenOfPidSpawnsFirst(pidArg, cbIsFn, spawnOk) ==
    /\ pc = "idle"
    /\ callbackIsFn' = cbIsFn
    /\ pc' = IF cbIsFn THEN "running" ELSE "thrown"
    /\ pid' = IF pidArg.type = "number" THEN NumberToString(pidArg.val) ELSE pidArg.val
    /\ processLister' = IF spawnOk THEN "running" ELSE "failing"
    /\ stdout' = "open"
    /\ UNCHANGED <<isWindows, headers, lines, ps, parents, children, idx, calls,
                   uncaught, csvLine, csvFields,
                   suspended, headerStr, normalized>>

\* childrenOfPid(pid, callback) up to its return (lines 6-115): the check of the
\* callback, the conversion of pid, the spawn and the wiring of the pipeline.
\* spawnOk: whether the operating system can start the command.
childrenOfPid(pidArg, cbIsFn, spawnOk) ==
    /\ pc = "idle"
    /\ callbackIsFn' = cbIsFn
    /\ IF ~cbIsFn
       THEN /\ pc' = "thrown"
            /\ UNCHANGED <<pid, processLister, stdout>>
       ELSE /\ pc' = "running"
            /\ pid' = IF pidArg.type = "number" THEN NumberToString(pidArg.val)
                                                ELSE pidArg.val
            /\ processLister' = IF spawnOk THEN "running" ELSE "failing"
            /\ stdout' = "open"
    /\ UNCHANGED <<isWindows, headers, lines, ps, parents, children, idx, calls,
                   uncaught, csvLine, csvFields,
                   suspended, headerStr, normalized>>

\* the command could not be started: processLister emits 'error' on the next
\* tick, before any stream event; lines 50-60 register no listener for it, so
\* the event is thrown as an uncaught exception
SpawnError ==
    /\ pc = "running"
    /\ processLister = "failing"
    /\ processLister' = "failed"
    /\ uncaught' = TRUE
    /\ UNCHANGED <<pc, callbackIsFn, isWindows, pid, headers, stdout, lines, ps,
                   parents, children, idx, calls, csvLine, csvFields,
                   suspended, headerStr, normalized>>

\* the command exits with a status; the code registers no 'exit' or 'close'
\* listener on processLister, so nothing of the query changes
Exit(code) ==
    /\ pc \in {"running", "returned"}
    /\ processLister = "running"
    /\ processLister' = IF code = 0 THEN "exit0" ELSE "exit1"
    /\ UNCHANGED <<pc, callbackIsFn, isWindows, pid, headers, stdout, lines, ps,
                   parents, children, idx, calls, uncaught, csvLine, csvFields,
                   suspended, headerStr, normalized>>

\* StdoutLine calling callback(null, rows) as soon as a row has been parsed
StdoutLineDeliversEarly(line) ==
    /\ pc = "running"
    /\ stdout = "open"
    /\ processLister \in {"running", "exit0", "exit1"}
    /\ Len(lines) < MaxLines
    /\ LET r == esMapHandler(headers, line, isWindows)
       IN  /\ headers' = r.headers
           /\ ps' = ps \o r.out
           /\ calls' = IF r.out # <<>> THEN Append(calls, Success(ps \o r.out)) ELSE calls
    /\ lines' = Append(lines, line)
    /\ UNCHANGED <<pc, callbackIsFn, isWindows, pid, processLister, stdout, parents,
                   children, idx, uncaught, csvLine, csvFields,
                   suspended, headerStr, normalized>>

\* es.split() hands one line to the es.map handler (lines 65-99); a row it
\* passes on is pushed to the array of es.writeArray; an error it passed to cb
\* would be emitted by the pipeline and reach callback (line 114)
StdoutLine(line) ==
    /\ pc = "running"
    /\ stdout = "open"
    /\ processLister \in {"running", "exit0", "exit1"}
    /\ Len(lines) < MaxLines
    /\ LET r == esMapHandler(headers, line, isWindows)
       IN  /\ headers' = r.headers
           /\ ps' = ps \o r.out
           /\ calls' = IF r.err THEN Append(calls, Failure) ELSE calls
    /\ lines' = Append(lines, line)
    /\ UNCHANGED <<pc, callbackIsFn, isWindows, pid, processLister, stdout, parents,
                   children, idx, uncaught, csvLine, csvFields,
                   suspended, headerStr, normalized>>

\* the line stream ends: es.writeArray calls its callback, which ignores err and
\* starts the scan (lines 100-104)
StdoutEnd ==
    /\ pc = "running"
    /\ stdout = "open"
    /\ processLister # "failing"
    /\ stdout' = "ended"
    /\ pc' = "scanning"
    /\ parents' = {PropKey(pid)}
    /\ children' = <<>>
    /\ idx' = 1
    /\ UNCHANGED <<callbackIsFn, isWindows, pid, headers, processLister, lines, ps,
                   calls, uncaught, csvLine, csvFields,
                   suspended, headerStr, normalized>>

\* one iteration of ps.forEach (lines 105-110); the loop runs to completion
\* before any other event is handled
ForEachStep ==
    /\ pc = "scanning"
    /\ idx <= Len(ps)
    /\ LET r == forEachBody(parents, children, ps[idx])
       IN  /\ parents' = r.parents
           /\ children' = r.children
    /\ idx' = idx + 1
    /\ UNCHANGED <<pc, callbackIsFn, isWindows, pid, headers, processLister, stdout,
                   lines, ps, calls, uncaught, csvLine, csvFields,
                   suspended, headerStr, normalized>>

\* callback(null, children) (line 112)
Callback ==
    /\ pc = "scanning"
    /\ idx > Len(ps)
    /\ calls' = Append(calls, Success(children))
    /\ pc' = "returned"
    /\ UNCHANGED <<callbackIsFn, isWindows, pid, headers, processLister, stdout,
                   lines, ps, parents, children, idx, uncaught, csvLine, csvFields,
                   suspended, headerStr, normalized>>

\* processLister.stdout emits 'error': the pipeline re-emits it and the listener
\* of line 114 calls callback(err); the stream is destroyed and emits no 'end'
StdoutError ==
    /\ pc = "running"
    /\ stdout = "open"
    /\ processLister # "failing"
    /\ stdout' = "errored"
    /\ calls' = Append(calls, Failure)
    /\ UNCHANGED <<pc, callbackIsFn, isWindows, pid, headers, processLister, lines,
                   ps, parents, children, idx, uncaught, csvLine, csvFields,
                   suspended, headerStr, normalized>>

\* the stdout of a command that was never started is closed without 'end'
StdoutClose ==
    /\ pc = "running"
    /\ stdout = "open"
    /\ processLister = "failed"
    /\ stdout' = "closed"
    /\ UNCHANGED <<pc, callbackIsFn, isWindows, pid, headers, processLister, lines,
                   ps, parents, children, idx, calls, uncaught, csvLine, csvFields,
                   suspended, headerStr, normalized>>

Next ==
    \/ \E pidArg \in PidArgs, cbIsFn \in BOOLEAN, spawnOk \in BOOLEAN :
           childrenOfPid(pidArg, cbIsFn, spawnOk)
    \/ SpawnError
    \/ \E code \in {0, 1} : Exit(code)
    \/ \E line \in Lines(isWindows) : StdoutLine(line)
    \/ StdoutEnd
    \/ ForEachStep
    \/ Callback
    \/ StdoutError
    \/ StdoutClose

Spec == Init /\ [][Next]_vars

\* the scan and the callback are one synchronous run of the 'end' handler
\* (lines 100-113): once started, they are carried through
FairSpec == Spec /\ WF_vars(ForEachStep) /\ WF_vars(Callback)

---------------------------------------------------------------------------
(* The es.writeArray callback on every table: the state when the line      *)
(* stream has ended with the rows ps collected.                            *)

InitTree ==
    /\ pc = "scanning"
    /\ callbackIsFn = TRUE
    /\ isWindows = FALSE
    /\ \/ ps \in SeqsUpTo(TableRows, MaxRows) /\ pid \in PidStrings
       \/ ps \in ScenarioRows /\ pid = S_100
    /\ headers = <<S_PPID, S_PID, S_STAT, S_COMMAND>>
    /\ processLister = "exit0"
    /\ stdout = "ended"
    /\ lines = <<>>
    /\ parents = {PropKey(pid)}
    /\ children = <<>>
    /\ idx = 1
    /\ calls = <<>>
    /\ uncaught = FALSE
    /\ csvLine = <<>>
    /\ csvFields = <<>>
    /\ suspended = NoQuery
    /\ headerStr = <<>>
    /\ normalized = <<>>

NextTree == ForEachStep \/ Callback

SpecTree == InitTree /\ [][NextTree]_vars

---------------------------------------------------------------------------
(* parseCsvLine on every line over the characters quote, comma, other.     *)

CsvChars == {"\"", ",", "a"}

InitCsv ==
    /\ pc = "csv"
    /\ callbackIsFn = FALSE
    /\ isWindows = TRUE
    /\ pid = Undefined
    /\ headers = Null
    /\ processLister = "none"
    /\ stdout = "none"
    /\ lines = <<>>
    /\ ps = <<>>
    /\ parents = {}
    /\ children = <<>>
    /\ idx = 0
    /\ calls = <<>>
    /\ uncaught = FALSE
    /\ csvLine \in SeqsUpTo(CsvChars, MaxCsvLen)
    /\ csvFields = <<>>
    /\ suspended = NoQuery
    /\ headerStr = <<>>
    /\ normalized = <<>>

\* fields = parseCsvLine(line)
ParseCsv ==
    /\ pc = "csv"
    /\ csvFields' = parseCsvLine(csvLine)
    /\ pc' = "csvDone"
    /\ UNCHANGED <<callbackIsFn, isWindows, pid, headers, processLister, stdout,
                   lines, ps, parents, children, idx, calls, uncaught, csvLine,
                   suspended, headerStr, normalized>>

NextCsv == ParseCsv

SpecCsv == InitCsv /\ [][NextCsv]_vars

---------------------------------------------------------------------------
(* Properties of the Tree Builder, under SpecTree.                         *)

PidOf(proc) == Get(proc, S_PID)
PpidOf(proc) == Get(proc, S_PPID)
PidsOf(rows) == {PidOf(rows[i]) : i \in 1..Len(rows)}
PpidsOf(rows) == {PpidOf(rows[i]) : i \in 1..Len(rows)}

\* PIDs reachable from root by 1..k edges PPID -> PID of the table
RECURSIVE ReachablePids(_, _, _)
ReachablePids(rows, root, k) ==
    IF k = 0 THEN {}
    ELSE LET nearer == ReachablePids(rows, root, k - 1)
         IN  {PidOf(rows[i]) :
                 i \in {j \in 1..Len(rows) :
                           PpidOf(rows[j]) = root \/ PpidOf(rows[j]) \in nearer}}
\* the proper transitive descendants of root
DescendantPids(rows, root) == ReachablePids(rows, root, Len(rows))

DistinctPids(rows) ==
    \A i, j \in 1..Len(rows) : PidOf(rows[i]) = PidOf(rows[j]) => i = j
\* each row whose parent has a row comes after that row
ParentsFirst(rows) ==
    \A i, j \in 1..Len(rows) : PidOf(rows[j]) = PpidOf(rows[i]) => j < i

RowsWithPidIn(rows, pids) ==
    LET Test(proc) == PidOf(proc) \in pids
    IN  SelectSeq(rows, Test)

\* C1: on a table with distinct PIDs that lists parents before children, the
\* handler gets exactly the rows whose PID is a proper transitive descendant of
\* the root, in table order; on the end-to-end table with root 100 that is the
\* row of PID 200 alone.
C1_ResultIsDescendants ==
    /\ (pc = "returned" /\ DistinctPids(ps) /\ ParentsFirst(ps))
           => calls = <<Success(RowsWithPidIn(ps, DescendantPids(ps, pid)))>>
    /\ (pc = "returned" /\ ps = EndToEndRows /\ pid = S_100)
           => calls = <<Success(<<EndToEndRows[2]>>)>>

C1_Witness ==
    /\ pc = "returned"
    /\ ps = EndToEndRows
    /\ pid = S_100
    /\ calls = <<Success(<<Row(S_100, S_200, <<"R">>, <<"n", "o", "d", "e">>)>>)>>

\* the invocations callback(null, children) and the PIDs of the rows they got
SuccessCalls == {k \in 1..Len(calls) : calls[k].err = "null"}
ErrorCalls == {k \in 1..Len(calls) : calls[k].err # "null"}
ResultPids == UNION {PidsOf(calls[k].results) : k \in SuccessCalls}

\* C2, as claimed: on the table [(100,200,child), (200,300,grandchild)] with
\* root 100 the result has the row of PID 200 and not the row of PID 300.
C2_ChildFirstOmitsGrandchild ==
    (pc = "returned" /\ ps = ChildFirstRows /\ pid = S_100)
        => (S_200 \in ResultPids /\ S_300 \notin ResultPids)

\* C2, amended: on that table the result has both rows, child then grandchild;
\* it is on the table in the opposite order, [(200,300,grandchild),
\* (100,200,child)], that the result has PID 200 and not PID 300.
C2_OrderingScenario ==
    /\ (pc = "returned" /\ ps = ChildFirstRows /\ pid = S_100)
           => calls = <<Success(<<ChildRow, GrandchildRow>>)>>
    /\ (pc = "returned" /\ ps = GrandchildFirstRows /\ pid = S_100)
           => (calls = <<Success(<<ChildRow>>)>>
               /\ S_200 \in ResultPids /\ S_300 \notin ResultPids)

C2_Witness ==
    /\ pc = "returned"
    /\ ps = ChildFirstRows
    /\ pid = S_100
    /\ S_300 \in ResultPids

\* C5, as claimed: no row whose PID is the root PID is ever appended to the
\* result list.
C5_RootNeverInResult ==
    \A i \in 1..Len(children) : PidOf(children[i]) # pid

\* C6, as claimed: when no row has the root PID as its PID, the handler gets
\* (null, []) whatever the other rows are.
C6_AbsentRootGivesEmpty ==
    (pc = "returned" /\ pid \notin PidsOf(ps)) => calls = <<Success(<<>>)>>

\* C6, amended: when no row has the root PID as its PID, the query completes
\* with no error, and its result list is empty exactly when no row has the root
\* PID as its PPID (rows that still name the absent root as parent are returned).
C6_AbsentRootNoError ==
    (pc = "returned" /\ pid \notin PidsOf(ps))
        => /\ Len(calls) = 1
           /\ calls[1].err = "null"
           /\ (calls[1].results = <<>>) <=> (pid \notin PpidsOf(ps))

C6_Witness ==
    /\ pc = "returned"
    /\ pid \notin PidsOf(ps)
    /\ pid \in PpidsOf(ps)
    /\ SuccessCalls # {}
    /\ ResultPids # {}

\* C7: when the root PID has a row and no row has the root PID as its PPID, the
\* handler is invoked with (null, []).
C7_ChildlessRootGivesEmpty ==
    (pc = "returned" /\ pid \in PidsOf(ps) /\ pid \notin PpidsOf(ps))
        => calls = <<Success(<<>>)>>

C7_Witness ==
    /\ pc = "returned"
    /\ pid \in PidsOf(ps)
    /\ pid \notin PpidsOf(ps)
    /\ Len(ps) >= 3
    /\ calls = <<Success(<<>>)>>

---------------------------------------------------------------------------
(* Properties of the query, under Spec.                                    *)

\* a query with a valid handler has nothing left to happen: its line stream has
\* ended, failed or been closed, and the scan is over
Quiescent ==
    /\ callbackIsFn
    /\ pc \in {"running", "returned"}
    /\ stdout \in {"ended", "errored", "closed"}

\* the listing failed: the command was not started or exited abnormally, or the
\* line stream reported an error
ListingFailed ==
    processLister \in {"failed", "exit1"} \/ stdout = "errored"

\* C3, as claimed: the handler is never invoked twice, and once the query of a
\* valid handler has nothing left to happen it has been invoked exactly once.
C3_HandlerExactlyOnce ==
    /\ Len(calls) <= 1
    /\ Quiescent => Len(calls) = 1

\* C4, as claimed: when the listing failed the handler is never given a result
\* list, nothing is thrown outside the handler, and at the end of the query the
\* handler has received an error.
C4_FailureGivesErrorOnly ==
    ListingFailed =>
        /\ SuccessCalls = {}
        /\ ~uncaught
        /\ Quiescent => ErrorCalls # {}

RECURSIVE ParseLines(_, _, _, _)
ParseLines(ls, h, rows, win) ==
    IF ls = <<>> THEN [headers |-> h, rows |-> rows]
    ELSE LET r == esMapHandler(h, Head(ls), win)
         IN  ParseLines(Tail(ls), r.headers, rows \o r.out, win)

Without(ls, k) == SubSeq(ls, 1, k - 1) \o SubSeq(ls, k + 1, Len(ls))

IsEmptyLine(line) == Trim(line) = <<>>
IsSeparatorLine(line) == IncludesDashes(Trim(line))
\* a line with fewer parsed columns than the header, or (POSIX) not of the data pattern
IsShortLine(line) ==
    \/ ~isWindows /\ MatchPosix(Trim(line)) = <<>>
    \/ headers # Null /\ Len(Columns(Trim(line), isWindows)) < Len(headers)
IsMalformedLine(line) ==
    IsEmptyLine(line) \/ IsSeparatorLine(line) \/ IsShortLine(line)

FirstNonEmptyLine(k) ==
    ~IsEmptyLine(lines[k]) /\ \A j \in 1..(k - 1) : IsEmptyLine(lines[j])
\* the line that becomes the header: the first neither empty nor a separator
FirstHeaderLine(k) ==
    /\ ~IsEmptyLine(lines[k]) /\ ~IsSeparatorLine(lines[k])
    /\ \A j \in 1..(k - 1) : IsEmptyLine(lines[j]) \/ IsSeparatorLine(lines[j])

\* no line has made the handler receive an error or stopped the query
NoErrorFromLines ==
    (lines # <<>> /\ stdout = "open") => (calls = <<>> /\ ~uncaught /\ pc = "running")

\* C9, as claimed: a malformed line that is not the first non-empty line yields
\* no error, and the rows are those of the stream without that line.
C9_MalformedLineDropped ==
    /\ NoErrorFromLines
    /\ \A k \in 1..Len(lines) :
           (IsMalformedLine(lines[k]) /\ ~FirstNonEmptyLine(k))
               => ParseLines(Without(lines, k), Null, <<>>, isWindows).rows = ps

\* C9, amended: a malformed line that is not the first line that is neither
\* empty nor a separator (the line that becomes the header) yields no error,
\* and the rows are those of the stream without that line.
C9_MalformedLineAfterHeaderDropped ==
    /\ NoErrorFromLines
    /\ \A k \in 1..Len(lines) :
           (IsMalformedLine(lines[k]) /\ ~FirstHeaderLine(k))
               => ParseLines(Without(lines, k), Null, <<>>, isWindows).rows = ps

C9_Witness ==
    /\ Len(lines) = 3
    /\ FirstHeaderLine(1)
    /\ IsShortLine(lines[2]) /\ ~IsEmptyLine(lines[2]) /\ ~IsSeparatorLine(lines[2])
    /\ Len(ps) = 1
    /\ calls = <<>>

---------------------------------------------------------------------------
(* Properties of parseCsvLine, under SpecCsv.                              *)

QuotesBefore(line, i) == Cardinality({j \in 1..(i - 1) : line[j] = "\""})
\* the commas with an even number of double-quotes before them
SeparatorCommas(line) ==
    {i \in 1..Len(line) : line[i] = "," /\ QuotesBefore(line, i) % 2 = 0}
\* position of the n-th separator comma; 0 before the first, Len + 1 after the last
SeparatorAt(line, n) ==
    IF n = 0 THEN 0
    ELSE IF n > Cardinality(SeparatorCommas(line)) THEN Len(line) + 1
    ELSE CHOOSE i \in SeparatorCommas(line) :
             Cardinality({c \in SeparatorCommas(line) : c < i}) = n - 1
NotQuote(c) == c # "\""
\* the characters between the (n-1)-th and the n-th separator comma, quotes dropped
FieldText(line, n) ==
    SelectSeq(SubSeq(line, SeparatorAt(line, n - 1) + 1, SeparatorAt(line, n) - 1),
              NotQuote)

\* C10: parseCsvLine splits a line at exactly the commas that have an even
\* number of double-quotes before them: it returns one field more than there
\* are such commas, each field is the text between two of them (a comma inside
\* quotes stays in its field), and no field contains a double-quote.
C10_CsvFields ==
    pc = "csvDone" =>
        /\ Len(csvFields) = 1 + Cardinality(SeparatorCommas(csvLine))
        /\ \A n \in 1..Len(csvFields) :
               /\ csvFields[n] = FieldText(csvLine, n)
               /\ \A i \in 1..Len(csvFields[n]) : csvFields[n][i] # "\""

C10_Witness ==
    /\ pc = "csvDone"
    /\ csvLine = <<"\"", "a", ",", "\"", ",">>
    /\ csvFields = << <<"a", ",">>, <<>> >>

---------------------------------------------------------------------------
(* normalizeHeader on the titles it names and on every string of up to     *)
(* MaxHeaderLen characters over P, I, D.                                   *)

HeaderChars == {"P", "I", "D"}
NamedTitles ==
    {S_Name, S_COMM, S_COMMAND, S_ParentProcessId, S_ProcessId, S_Status,
     S_PPID, S_PID, S_STAT}

InitHeader ==
    /\ pc = "header"
    /\ callbackIsFn = FALSE
    /\ isWindows \in BOOLEAN
    /\ pid = Undefined
    /\ headers = Null
    /\ processLister = "none"
    /\ stdout = "none"
    /\ lines = <<>>
    /\ ps = <<>>
    /\ parents = {}
    /\ children = <<>>
    /\ idx = 0
    /\ calls = <<>>
    /\ uncaught = FALSE
    /\ csvLine = <<>>
    /\ csvFields = <<>>
    /\ suspended = NoQuery
    /\ headerStr \in NamedTitles \cup SeqsUpTo(HeaderChars, MaxHeaderLen)
    /\ normalized = <<>>

\* normalizeHeader(str), then normalizeHeader of what it returned
Normalize ==
    /\ pc = "header"
    /\ Len(normalized) < 2
    /\ normalized' =
           Append(normalized,
                  normalizeHeader(IF normalized = <<>> THEN headerStr
                                  ELSE normalized[Len(normalized)]))
    /\ UNCHANGED <<pc, callbackIsFn, isWindows, pid, headers, processLister, stdout,
                   lines, ps, parents, children, idx, calls, uncaught, csvLine,
                   csvFields, suspended, headerStr>>

NextHeader == Normalize

SpecHeader == InitHeader /\ [][NextHeader]_vars

\* C11: normalizeHeader maps Name and COMM to COMMAND, ParentProcessId to
\* PPID, ProcessId to PID, Status to STAT and returns every other name
\* unchanged; applied to its own result it changes nothing.
C11_NormalizeHeader ==
    /\ Len(normalized) >= 1 =>
           normalized[1] =
               IF headerStr \in {S_Name, S_COMM} THEN S_COMMAND
               ELSE IF headerStr = S_ParentProcessId THEN S_PPID
               ELSE IF headerStr = S_ProcessId THEN S_PID
               ELSE IF headerStr = S_Status THEN S_STAT
               ELSE headerStr
    /\ Len(normalized) = 2 => normalized[2] = normalized[1]

C11_Witness ==
    /\ headerStr = S_COMM
    /\ normalized = <<S_COMMAND, S_COMMAND>>

---------------------------------------------------------------------------
(* The single pass, under SpecTree.                                        *)

\* the row at position i is included: its PPID is the root PID or the PID of
\* an included row at an earlier position
RECURSIVE IsIncluded(_, _, _)
IsIncluded(rows, root, i) ==
    \/ PpidOf(rows[i]) = root
    \/ \E j \in 1..(i - 1) : PidOf(rows[j]) = PpidOf(rows[i]) /\ IsIncluded(rows, root, j)

\* the rows of the first n positions that are included, in order
RECURSIVE IncludedRows(_, _, _)
IncludedRows(rows, root, n) ==
    IF n = 0 THEN <<>>
    ELSE IncludedRows(rows, root, n - 1)
             \o (IF IsIncluded(rows, root, n) THEN <<rows[n]>> ELSE <<>>)

\* C12: the row at position i is in the result if and only if its PPID is the
\* root PID or the PID of a row at an earlier position that is itself in the
\* result: after each step of the pass the result holds the included rows of
\* the positions scanned, and the handler gets those of the whole table.
C12_SinglePassInclusion ==
    /\ pc = "scanning" => children = IncludedRows(ps, pid, idx - 1)
    /\ pc = "returned" => calls = <<Success(IncludedRows(ps, pid, Len(ps)))>>

\* a row listed before its parent row is left out and the same row listed
\* after it is taken
C12_Witness ==
    /\ pc = "returned"
    /\ pid = <<"0">>
    /\ ps = <<Row(<<"1">>, <<"2">>, <<"S">>, <<"c">>),
              Row(<<"0">>, <<"1">>, <<"S">>, <<"c">>),
              Row(<<"1">>, <<"2">>, <<"S">>, <<"c">>)>>
    /\ calls = <<Success(SubSeq(ps, 2, 3))>>

---------------------------------------------------------------------------
(* The order of parsing, scan and callback, under FairSpec.                *)

\* the children the pass over rows computes for root
RECURSIVE ScanRows(_, _, _, _)
ScanRows(rows, i, par, chi) ==
    IF i > Len(rows) THEN chi
    ELSE LET r == forEachBody(par, chi, rows[i])
         IN  ScanRows(rows, i + 1, r.parents, r.children)
ScanResult(rows, root) == ScanRows(rows, 1, {PropKey(root)}, <<>>)

\* C13: the handler gets a result list only when the line stream has ended,
\* and then the list computed from the rows of all the lines; while the stream
\* has neither ended nor failed the handler is not invoked; once the stream has
\* ended the handler is eventually invoked with a result list.
C13_ResultOnlyAfterEnd ==
    /\ [](SuccessCalls # {} =>
              /\ stdout = "ended"
              /\ pc = "returned"
              /\ ps = ParseLines(lines, Null, <<>>, isWindows).rows
              /\ calls = <<Success(ScanResult(ps, pid))>>)
    /\ [](stdout \in {"open", "closed"} => calls = <<>>)
    /\ (stdout = "ended" ~> SuccessCalls # {})

C13_Witness ==
    /\ stdout = "ended"
    /\ pc = "returned"
    /\ Len(lines) >= 3
    /\ Len(ps) >= 1
    /\ calls = <<Success(ps)>>

---------------------------------------------------------------------------
(* The header and the rows, under Spec.                                    *)

HasHeaderLine == \E k \in 1..Len(lines) : FirstHeaderLine(k)
HeaderLineIndex == CHOOSE k \in 1..Len(lines) : FirstHeaderLine(k)
\* the names read from a header line: CSV fields, or whitespace-separated words
HeaderNames(line) ==
    normalizeHeaders(IF isWindows THEN parseCsvLine(Trim(line)) ELSE SplitWs(Trim(line)))
\* the lines after the header line that are accepted: neither empty nor a
\* separator, with at least as many columns as the header
AcceptedLines ==
    {j \in (HeaderLineIndex + 1)..Len(lines) :
        /\ ~IsEmptyLine(lines[j]) /\ ~IsSeparatorLine(lines[j])
        /\ Len(Columns(Trim(lines[j]), isWindows)) >= Len(headers)}
NthAcceptedLine(n) ==
    CHOOSE j \in AcceptedLines : Cardinality({a \in AcceptedLines : a < j}) = n - 1

\* C14: headers is set from the first line that is neither empty nor a
\* separator, that line yields no row, and headers stays as set; the rows are
\* those of the accepted later lines, in order, each with exactly the header
\* names as its keys and column i as the value of header i (of a name that
\* occurs twice in the header, the later column).
C14_HeaderOnceRowsPositional ==
    /\ ~HasHeaderLine => (headers = Null /\ ps = <<>>)
    /\ HasHeaderLine =>
           /\ headers = HeaderNames(lines[HeaderLineIndex])
           /\ Len(ps) = Cardinality(AcceptedLines)
           /\ \A n \in 1..Len(ps) :
                  LET columns == Columns(Trim(lines[NthAcceptedLine(n)]), isWindows)
                  IN  /\ DOMAIN ps[n] = Range(headers)
                      /\ \A i \in 1..Len(headers) :
                             (\A j \in (i + 1)..Len(headers) : headers[j] # headers[i])
                                 => ps[n][headers[i]] = columns[i]

\* a header line, a line it rejects and a line it accepts
C14_Witness ==
    /\ Len(lines) = 3
    /\ HasHeaderLine
    /\ HeaderLineIndex = 1
    /\ headers = <<S_PPID, S_PID, S_STAT, S_COMMAND>>
    /\ AcceptedLines = {3}
    /\ ~IsEmptyLine(lines[2])
    /\ Len(ps) = 1

---------------------------------------------------------------------------
(* One POSIX data line after the header line: every line of up to          *)
(* MaxPosixLen characters over digit, space, letter, and the lines of      *)
(* PosixLines.                                                             *)

PosixChars == {"1", " ", "a"}
\* a header line of five columns
PosixWideHeaderLine == PosixHeaderLine \o Sp \o <<"X">>

InitPosix ==
    /\ pc = "running"
    /\ callbackIsFn = TRUE
    /\ isWindows = FALSE
    /\ pid = <<"1">>
    /\ lines \in {<<PosixHeaderLine>>, <<PosixWideHeaderLine>>}
    /\ headers = normalizeHeaders(SplitWs(Trim(lines[1])))
    /\ processLister = "running"
    /\ stdout = "open"
    /\ ps = <<>>
    /\ parents = {}
    /\ children = <<>>
    /\ idx = 0
    /\ calls = <<>>
    /\ uncaught = FALSE
    /\ csvLine = <<>>
    /\ csvFields = <<>>
    /\ suspended = NoQuery
    /\ headerStr = <<>>
    /\ normalized = <<>>

\* the first line after the header line reaches the es.map handler
PosixDataLine(line) ==
    /\ Len(lines) = 1
    /\ StdoutLine(line)

PosixTexts == SeqsUpTo(PosixChars, MaxPosixLen) \cup PosixLines

\* the lines stdout may still deliver: one data line after the header line
PendingTexts == IF Len(lines) = 1 THEN PosixTexts ELSE {}

NextPosix ==
    \E line \in PendingTexts : PosixDataLine(line)

SpecPosix == InitPosix /\ [][NextPosix]_vars

\* the whitespace-separated tokens of a line
Tokens(line) == SplitWs(Trim(line))
AllDigits(token) == token # <<>> /\ \A i \in 1..Len(token) : IsDigit(token[i])
\* the trimmed line from its n-th token on
RECURSIVE FromToken(_, _)
FromToken(t, n) ==
    IF n = 1 THEN t
    ELSE FromToken(TrimLeft(SubSeq(t, NonSpaceRun(t, 1) + 1, Len(t))), n - 1)
\* at least four tokens, the first two of digits only
HasDataShape(line) ==
    /\ Len(Tokens(line)) >= 4
    /\ AllDigits(Tokens(line)[1])
    /\ AllDigits(Tokens(line)[2])
\* the row of a line of that shape
DataRow(line) ==
    Row(Tokens(line)[1], Tokens(line)[2], Tokens(line)[3], FromToken(Trim(line), 4))

\* C15, as claimed: after the header, a data line yields a row if and only if
\* it has at least four tokens of which the first two are digits only and the
\* header has at most four columns; the row has PPID, PID, STAT the first three
\* tokens and COMMAND the whole remainder of the line.
C15_RowIffDataShape ==
    Len(lines) = 2 =>
        /\ (ps # <<>>) <=> (HasDataShape(lines[2]) /\ Len(headers) <= 4)
        /\ ps # <<>> => ps = <<DataRow(lines[2])>>

\* what holds of the code: the same, for lines without four dashes in a row
C15_RowIffDataShapeNoDashes ==
    Len(lines) = 2 =>
        /\ (ps # <<>>) <=>
               /\ ~IncludesDashes(Trim(lines[2]))
               /\ HasDataShape(lines[2])
               /\ Len(headers) <= 4
        /\ ps # <<>> => ps = <<DataRow(lines[2])>>

---------------------------------------------------------------------------
(* The result as a subsequence of the rows, under SpecTree.                *)

\* sub is seq with some of its positions left out
RECURSIVE IsSubsequence(_, _)
IsSubsequence(sub, seq) ==
    IF sub = <<>> THEN TRUE
    ELSE IF seq = <<>> THEN FALSE
    ELSE IF Head(sub) = Head(seq) THEN IsSubsequence(Tail(sub), Tail(seq))
    ELSE IsSubsequence(sub, Tail(seq))

\* C16: the result is a subsequence of the parsed rows: every result element
\* is one of the rows, unmodified, each position of the rows is used at most
\* once, and the result keeps the order of the rows; this holds of the rows
\* scanned so far after each step and of the list handed to the handler.
C16_ResultIsSubsequence ==
    /\ pc = "scanning" => IsSubsequence(children, SubSeq(ps, 1, idx - 1))
    /\ \A k \in SuccessCalls : IsSubsequence(calls[k].results, ps)

\* the first and the third of three different rows are the result
C16_Witness ==
    /\ pc = "returned"
    /\ Len(ps) = 3
    /\ Cardinality(Range(ps)) = 3
    /\ calls = <<Success(<<ps[1], ps[3]>>)>>

---------------------------------------------------------------------------
(* The growth of parents during the pass, under SpecTree.                  *)

\* the keys of parents that the rows of a list set (line 107)
KeysOf(rows) == {PropKey(PidOf(rows[i])) : i \in 1..Len(rows)}

\* C18: during the scan parents only grows: it holds the root PID from the
\* start, no step removes a PID, and after each step it is the root PID
\* together with the PIDs of the rows appended to the result so far, so at the
\* end it is the root PID plus the PIDs of the result rows.
C18_ParentsOnlyGrows ==
    /\ [](pc \in {"scanning", "returned"} =>
              /\ PropKey(pid) \in parents
              /\ parents = {PropKey(pid)} \cup KeysOf(children))
    /\ [](\A k \in SuccessCalls : parents = {PropKey(pid)} \cup KeysOf(calls[k].results))
    /\ [][parents \subseteq parents']_vars

\* in the middle of a pass two rows have been appended and a row is left
C18_Witness ==
    /\ pc = "scanning"
    /\ idx = Len(ps)
    /\ Len(children) = 2
    /\ Cardinality(parents) = 3

---------------------------------------------------------------------------
(* The separator test on every line, under Spec.                           *)

NotSeparatorLine(line) == ~IsSeparatorLine(line)
\* the line stream without its lines that hold four dashes in a row
NonSeparatorLines == SelectSeq(lines, NotSeparatorLine)
\* a well-formed data line whose COMMAND holds '----', after the header line
\* and before the line of its child
DashCommandListing == <<PosixHeaderLine, PosixDashCommandLine, PosixLineB>>

---------------------------------------------------------------------------
(* Two queries in one process. Each call of childrenOfPid has its own      *)
(* closure: the parameters pid and callback, the local headers (line 11),  *)
(* the process and its stream, and the locals of the es.writeArray         *)
(* callback. The variables hold the closure of the query whose event is    *)
(* being handled; suspended holds the closure of the other query.          *)

\* the closure of the running query
QueryState ==
    [pc |-> pc, callbackIsFn |-> callbackIsFn, pid |-> pid, headers |-> headers,
     processLister |-> processLister, stdout |-> stdout, lines |-> lines,
     ps |-> ps, parents |-> parents, children |-> children, idx |-> idx,
     calls |-> calls]

\* a query that has not been started
IdleQuery ==
    [pc |-> "idle", callbackIsFn |-> FALSE, pid |-> Undefined, headers |-> Null,
     processLister |-> "none", stdout |-> "none", lines |-> <<>>,
     ps |-> <<>>, parents |-> {}, children |-> <<>>, idx |-> 0,
     calls |-> <<>>]

InitTwo ==
    /\ pc = "idle"
    /\ callbackIsFn = FALSE
    /\ isWindows \in BOOLEAN
    /\ pid = Undefined
    /\ headers = Null
    /\ processLister = "none"
    /\ stdout = "none"
    /\ lines = <<>>
    /\ ps = <<>>
    /\ parents = {}
    /\ children = <<>>
    /\ idx = 0
    /\ calls = <<>>
    /\ uncaught = FALSE
    /\ csvLine = <<>>
    /\ csvFields = <<>>
    /\ suspended = IdleQuery
    /\ headerStr = <<>>
    /\ normalized = <<>>

\* the next event belongs to the other query, with headers a variable of the
\* module instead of a local of childrenOfPid
SwitchSharesHeaders ==
    /\ pc # "scanning"
    /\ suspended' = QueryState
    /\ pc' = suspended.pc
    /\ callbackIsFn' = suspended.callbackIsFn
    /\ pid' = suspended.pid
    /\ processLister' = suspended.processLister
    /\ stdout' = suspended.stdout
    /\ lines' = suspended.lines
    /\ ps' = suspended.ps
    /\ parents' = suspended.parents
    /\ children' = suspended.children
    /\ idx' = suspended.idx
    /\ calls' = suspended.calls
    /\ UNCHANGED <<headers, isWindows, uncaught, csvLine, csvFields, headerStr, normalized>>

\* the next event belongs to the other query: its handlers run on their own
\* closure; the scan and the callback of a query are one synchronous run
Switch ==
    /\ pc # "scanning"
    /\ suspended' = QueryState
    /\ pc' = suspended.pc
    /\ callbackIsFn' = suspended.callbackIsFn
    /\ pid' = suspended.pid
    /\ headers' = suspended.headers
    /\ processLister' = suspended.processLister
    /\ stdout' = suspended.stdout
    /\ lines' = suspended.lines
    /\ ps' = suspended.ps
    /\ parents' = suspended.parents
    /\ children' = suspended.children
    /\ idx' = suspended.idx
    /\ calls' = suspended.calls
    /\ UNCHANGED <<isWindows, uncaught, csvLine, csvFields, headerStr, normalized>>

\* the lines of the two listings
PosixLinesTwo == {PosixHeaderLine, PosixLineA, PosixLineB}
CsvLinesTwo == {CsvHeaderLine, CsvLineA, CsvLineB}
LinesTwo == IF isWindows THEN CsvLinesTwo ELSE PosixLinesTwo

\* childrenOfPid(pid, callback) with a function as callback
StartQuery(pidArg) == childrenOfPid(pidArg, TRUE, TRUE)

StdoutLineTwo(line) ==
    /\ Len(lines) < MaxLinesTwo
    /\ StdoutLine(line)

NextTwo ==
    \/ \E pidArg \in PidArgs : StartQuery(pidArg)
    \/ \E line \in LinesTwo : StdoutLineTwo(line)
    \/ StdoutEnd
    \/ ForEachStep
    \/ Callback
    \/ StdoutError
    \/ Switch

SpecTwo == InitTwo /\ [][NextTwo]_vars

\* the query q is where it would be when run alone on its own lines with its
\* own root: headers and rows are those of its lines, parents and children
\* those of the scan of its rows, and its handler got the result of that scan
RunsAlone(q) ==
    /\ q.pc = "idle" => q = IdleQuery
    /\ ParseLines(q.lines, Null, <<>>, isWindows) = [headers |-> q.headers, rows |-> q.ps]
    /\ q.pc = "scanning" =>
           /\ q.children = ScanResult(SubSeq(q.ps, 1, q.idx - 1), q.pid)
           /\ q.parents = {PropKey(q.pid)} \cup KeysOf(q.children)
           /\ q.calls = <<>>
    /\ q.pc = "returned" =>
           /\ q.children = ScanResult(q.ps, q.pid)
           /\ q.parents = {PropKey(q.pid)} \cup KeysOf(q.children)
           /\ q.calls = <<Success(q.children)>>
    /\ q.pc = "running" =>
           q.calls = IF q.stdout = "errored" THEN <<Failure>> ELSE <<>>

\* C17: queries are isolated: with the line, end and error events of two
\* queries interleaved in any order, the headers, the parents and the result
\* of each query are those it has when run alone on its own root PID and its
\* own listing.
C17_QueriesIsolated ==
    /\ RunsAlone(QueryState)
    /\ RunsAlone(suspended)

\* two queries for different roots have read different listings and returned
\* different results
C17_Witness ==
    /\ pc = "returned"
    /\ suspended.pc = "returned"
    /\ pid = <<"1">>
    /\ suspended.pid = <<"2">>
    /\ Len(lines) = 2
    /\ Len(suspended.lines) = 2
    /\ Len(children) = 1
    /\ Len(suspended.children) = 1
    /\ children # suspended.children

====
